---- MODULE Spec2Model ----
(***************************************************************************)
(* Model of src/script.js: class BlockScene.                               *)
(*                                                                         *)
(* Execution model: the browser's event loop.  init(), every event         *)
(* listener and every requestAnimationFrame callback runs to completion,   *)
(* so each is one action.  What a handler did, in order, is kept in        *)
(* `trace` (the steps of the most recent handler).                         *)
(*                                                                         *)
(* Numbers are fixed point.  Math.random() returns k / RandDen for a       *)
(* numerator k in 0 .. RandDen-1.  Lengths (positions, velocities, sizes)  *)
(* are counted in units of 0.01 / RandDen, so that every product of a      *)
(* random value with a width of the source is an integer.  Scales are in   *)
(* tenths, rotation angles in thousandths of a radian, pointer coordinates *)
(* in halves.                                                              *)
(***************************************************************************)
EXTENDS Integers, Sequences, FiniteSets, TLC

\* ---- bounds of the model ------------------------------------------------
NumBlocks == 2
NumParticles == 1
MaxFrames == 2
RandDen == 4

\* ---- constants of the program --------------------------------------------
ScaleNormal == 10
ScaleHover == 11
RotStep == 2
ResetRadius == 20
SpawnWidth == 30
ReseedWidth == 10
VelWidth == 2
CenterWidth == 10
clusterRadius == 8
colors == <<"BLUE", "GREEN", "WHITE">>

VARIABLES
    scene,            \* BOOLEAN: this.scene is set
    camera,           \* <<>> (null) or <<aspectW, aspectH>>
    renderer,         \* <<>> (null) or <<width, height>> of the drawing surface
    controls,         \* BOOLEAN: this.controls is set
    lights,           \* BOOLEAN: addLighting() has run
    mouse,            \* this.mouse, <<x, y>> in halves
    lastIntersected,  \* 0 (null) or the index of a block
    blocks,           \* this.blockGroup.children: Seq of [position, size, color, scale]
    rotation,         \* this.blockGroup.rotation: [x, y] in thousandths
    particles,        \* this.particles: Seq of [position, velocity]
    listeners,        \* BOOLEAN: addEventListeners() has run
    pendingFrames,    \* number of requestAnimationFrame callbacks queued
    errorLogged,      \* BOOLEAN: console.error of init's catch has run
    rendered,         \* <<>> or <<what the last renderer.render() drew>>
    window,           \* <<innerWidth, innerHeight>> of the host window
    trace             \* the steps of the most recent handler, in order

vars == <<scene, camera, renderer, controls, lights, mouse, lastIntersected,
          blocks, rotation, particles, listeners, pendingFrames, errorLogged,
          rendered, window, trace>>

\* ---- the random source ----------------------------------------------------
Half == RandDen \div 2
Top == RandDen - 1
Rands == 0 .. Top

\* (Math.random() - 0.5) * width, width in units of 1.0
Centered(k, width) == (2 * k - RandDen) * width * 50

\* (Math.random() - 0.5) * width, width in hundredths
CenteredSmall(k, width) == ((2 * k - RandDen) * width) \div 2

\* Math.floor(Math.random() * n)
FloorRand(k, n) == (k * n) \div RandDen

\* ---- vectors --------------------------------------------------------------
VecAdd(a, b) == <<a[1] + b[1], a[2] + b[2], a[3] + b[3]>>
LengthSq(a) == a[1] * a[1] + a[2] * a[2] + a[3] * a[3]
RadiusUnits == ResetRadius * 100 * RandDen

\* position.length() > 20
TooFar(pos) == LengthSq(pos) > RadiusUnits * RadiusUnits

\* ---- createBlock / createBlocks ---------------------------------------------
\* The draws of one loop iteration of createBlocks: the cluster center, the
\* offset inside the cluster, the color and (in createBlock) the size.  The draw
\* for clusterIndex is never read by the code.  The three draws give a block at
\* the origin, a block in front of it (nearer to the camera) and a block to its
\* left.
BlockDraws ==
    << [center |-> <<Half, Half, Half>>, offset |-> <<Half, Half, Half>>, color |-> 0, size |-> 0],
       [center |-> <<Half, Half, Top>>, offset |-> <<Half, Half, Half>>, color |-> Half, size |-> Half],
       [center |-> <<0, Half, Half>>, offset |-> <<Half, Half, Half>>, color |-> Top, size |-> Top] >>

\* The draws of a whole run of createBlocks: the three draws in turn, from any
\* of them on.
BlockLayouts ==
    { [i \in 1 .. NumBlocks |-> BlockDraws[((i + k) % Len(BlockDraws)) + 1]] :
        k \in 0 .. Len(BlockDraws) - 1 }

createBlock(x, y, z, color, sizeDraw) ==
    [position |-> <<x, y, z>>,
     size |-> sizeDraw * 50 + 50 * RandDen,
     color |-> color,
     scale |-> ScaleNormal]

BlockOf(d) ==
    createBlock(Centered(d.center[1], CenterWidth) + Centered(d.offset[1], clusterRadius),
                Centered(d.center[2], CenterWidth) + Centered(d.offset[2], clusterRadius),
                Centered(d.center[3], CenterWidth) + Centered(d.offset[3], clusterRadius),
                colors[FloorRand(d.color, Len(colors)) + 1],
                d.size)

createBlocks(draws) == [i \in 1 .. NumBlocks |-> BlockOf(draws[i])]

\* ---- createParticles ----------------------------------------------------------
\* The six draws of one particle, for its position and its velocity: a far
\* corner of the cube at rest, and a point of the x axis moving at the extreme
\* speeds.
ParticleDraws ==
    { [pos |-> <<0, 0, 0>>, vel |-> <<Half, Half, Half>>],
      [pos |-> <<Top, Half, Half>>, vel |-> <<Top, 0, Half>>] }

SpawnParticle(d) ==
    [position |-> <<Centered(d.pos[1], SpawnWidth), Centered(d.pos[2], SpawnWidth),
                    Centered(d.pos[3], SpawnWidth)>>,
     velocity |-> <<CenteredSmall(d.vel[1], VelWidth), CenteredSmall(d.vel[2], VelWidth),
                    CenteredSmall(d.vel[3], VelWidth)>>]

createParticles(draws) == [i \in 1 .. NumParticles |-> SpawnParticle(draws[i])]

\* ---- animateParticles -----------------------------------------------------------
\* Variant: the reset draws the position from the spawn range of createParticles.
animateParticleSpawnRange(p, d) ==
    LET moved == VecAdd(p.position, p.velocity)
    IN  IF TooFar(moved)
        THEN SpawnParticle(d)
        ELSE [position |-> moved, velocity |-> p.velocity]

\* Variant: the squared length is compared with the radius itself.
animateParticleLinearRadius(p, d) ==
    LET moved == VecAdd(p.position, p.velocity)
    IN  IF LengthSq(moved) > RadiusUnits
        THEN [position |-> <<Centered(d.pos[1], ReseedWidth), Centered(d.pos[2], ReseedWidth),
                             Centered(d.pos[3], ReseedWidth)>>,
              velocity |-> <<CenteredSmall(d.vel[1], VelWidth), CenteredSmall(d.vel[2], VelWidth),
                             CenteredSmall(d.vel[3], VelWidth)>>]
        ELSE [position |-> moved, velocity |-> p.velocity]

\* Variant: the reset branch is missing.
animateParticleNoReset(p, d) ==
    [position |-> VecAdd(p.position, p.velocity), velocity |-> p.velocity]

\* The body of the forEach callback for one particle; d holds the draws the
\* reset branch consumes.
animateParticle(p, d) ==
    LET moved == VecAdd(p.position, p.velocity)
    IN  IF TooFar(moved)
        THEN [position |-> <<Centered(d.pos[1], ReseedWidth), Centered(d.pos[2], ReseedWidth),
                             Centered(d.pos[3], ReseedWidth)>>,
              velocity |-> <<CenteredSmall(d.vel[1], VelWidth), CenteredSmall(d.vel[2], VelWidth),
                             CenteredSmall(d.vel[3], VelWidth)>>]
        ELSE [position |-> moved, velocity |-> p.velocity]

\* Every array animateParticles can leave, over the draws of the reset branches.
RECURSIVE ParticleOutcomes(_, _)
ParticleOutcomes(ps, n) ==
    IF n = 0 THEN { <<>> }
    ELSE { Append(rest, q) :
             rest \in ParticleOutcomes(ps, n - 1),
             q \in { animateParticle(ps[n], d) : d \in ParticleDraws } }

animateParticles(ps) == ParticleOutcomes(ps, Len(ps))

\* ---- the ray cast (THREE.Raycaster, outside the repository) ----------------------
\* An abstraction of setFromCamera + intersectObjects: a deterministic function of
\* the pointer, the block group's rotation and the blocks' positions.  The view is
\* a 3 x 3 grid of cells; a block lies in the middle row (column) when its y (x)
\* is within 2.0 of the axis, else in the row (column) on the side of its sign;
\* each rotation step moves it on by one column; the ray through the pointer hits
\* the blocks of the pointer's cell, nearest (largest z, towards the camera) first.
Cell(v) == IF v > 200 * RandDen THEN 1 ELSE IF v < -(200 * RandDen) THEN -1 ELSE 0

BlockCell(b, rot) ==
    << 2 * (((Cell(b.position[1]) + 1 + rot.y \div RotStep) % 3) - 1),
       2 * Cell(b.position[2]) >>

Nearer(bs, i, j) ==
    \/ bs[i].position[3] > bs[j].position[3]
    \/ bs[i].position[3] = bs[j].position[3] /\ i <= j

RECURSIVE ByDistance(_, _)
ByDistance(bs, S) ==
    IF S = {} THEN <<>>
    ELSE LET first == CHOOSE i \in S : \A j \in S : Nearer(bs, i, j)
         IN  <<first>> \o ByDistance(bs, S \ {first})

Intersects(m, rot, bs) ==
    ByDistance(bs, { i \in 1 .. Len(bs) : BlockCell(bs[i], rot) = m })

\* ---- onMouseMove -------------------------------------------------------------------
\* this.mouse from the event's client coordinates
NormalizeX(clientX, w) == (clientX * 4) \div w - 2
NormalizeY(clientY, h) == 2 - (clientY * 4) \div h

\* Variant: the previous block's scale is not reset.
HoverUpdateNoReset(bs, last, hits) ==
    IF Len(hits) > 0
    THEN [blocks |-> [bs EXCEPT ![hits[1]].scale = ScaleHover], last |-> hits[1]]
    ELSE [blocks |-> bs, last |-> 0]

\* Variant: the last hit (the farthest block) is taken, not the first.
HoverUpdateFarthest(bs, last, hits) ==
    LET reset == IF last # 0 THEN [bs EXCEPT ![last].scale = ScaleNormal] ELSE bs
    IN  IF Len(hits) > 0
        THEN [blocks |-> [reset EXCEPT ![hits[Len(hits)]].scale = ScaleHover],
              last |-> hits[Len(hits)]]
        ELSE [blocks |-> reset, last |-> 0]

\* The hover bookkeeping of onMouseMove, lines 219-229.
HoverUpdate(bs, last, hits) ==
    LET reset == IF last # 0 THEN [bs EXCEPT ![last].scale = ScaleNormal] ELSE bs
    IN  IF Len(hits) > 0
        THEN [blocks |-> [reset EXCEPT ![hits[1]].scale = ScaleHover], last |-> hits[1]]
        ELSE [blocks |-> reset, last |-> 0]

\* ---- onMouseClick -------------------------------------------------------------------
\* Variant: without a hit the first block of the group is recolored.
ClickUpdateNoGuard(bs, hits, colorDraw) ==
    LET b == IF Len(hits) > 0 THEN hits[1] ELSE 1
    IN  [bs EXCEPT ![b].color = colors[FloorRand(colorDraw, Len(colors)) + 1]]

\* Variant: every block the ray hits is recolored, not only the nearest.
ClickUpdateAllHits(bs, hits, colorDraw) ==
    [i \in 1 .. Len(bs) |->
        IF \E h \in 1 .. Len(hits) : hits[h] = i
        THEN [bs[i] EXCEPT !.color = colors[FloorRand(colorDraw, Len(colors)) + 1]]
        ELSE bs[i]]

ClickUpdate(bs, hits, colorDraw) ==
    IF Len(hits) > 0
    THEN [bs EXCEPT ![hits[1]].color = colors[FloorRand(colorDraw, Len(colors)) + 1]]
    ELSE bs

\* ---- animate --------------------------------------------------------------------------
\* The state animate() works on, as a record, and its statements in order.
RequestFrame(s) ==
    [s EXCEPT !.pendingFrames = @ + 1, !.trace = Append(@, "requestAnimationFrame")]

RotateGroup(s) ==
    [s EXCEPT !.rotation = [x |-> @.x + RotStep, y |-> @.y + RotStep],
              !.trace = Append(@, "rotate")]

MoveParticles(s, np) ==
    [s EXCEPT !.particles = np, !.trace = Append(@, "animateParticles")]

UpdateControls(s) == [s EXCEPT !.trace = Append(@, "controls.update")]

Render(s) ==
    [s EXCEPT !.rendered = << [rotation |-> s.rotation, particles |-> s.particles] >>,
              !.trace = Append(@, "render")]

Throw(s) == [s EXCEPT !.trace = Append(@, "throw")]

\* Where a call of animate() can throw: in the calls into the camera controls and
\* the renderer.
ThrowPoints == { "none", "controls.update", "render" }

\* Variant: the scene is rendered before the particles are updated.
animateRenderFirst(s, np, throwAt) ==
    LET s1 == RequestFrame([s EXCEPT !.trace = Append(@, "animate")])
        s2 == RotateGroup(s1)
    IN  IF throwAt = "render" THEN Throw(s2)
        ELSE LET s3 == MoveParticles(Render(s2), np)
             IN  IF throwAt = "controls.update" THEN Throw(s3) ELSE UpdateControls(s3)

\* Variant: the next frame is requested at the end of the callback.
animateRequestLast(s, np, throwAt) ==
    LET s1 == [s EXCEPT !.trace = Append(@, "animate")]
        s2 == RotateGroup(s1)
        s3 == MoveParticles(s2, np)
    IN  IF throwAt = "controls.update" THEN Throw(s3)
        ELSE LET s4 == UpdateControls(s3)
             IN  IF throwAt = "render" THEN Throw(s4) ELSE RequestFrame(Render(s4))

\* np is the outcome of animateParticles, one of animateParticles(s.particles).
animate(s, np, throwAt) ==
    LET s1 == RequestFrame([s EXCEPT !.trace = Append(@, "animate")])
        s2 == RotateGroup(s1)
        s3 == MoveParticles(s2, np)
    IN  IF throwAt = "controls.update" THEN Throw(s3)
        ELSE LET s4 == UpdateControls(s3)
             IN  IF throwAt = "render" THEN Throw(s4) ELSE Render(s4)

FrameState ==
    [rotation |-> rotation, particles |-> particles, pendingFrames |-> pendingFrames,
     rendered |-> rendered, trace |-> <<>>]

\* ---- init ------------------------------------------------------------------------------
\* The statements of init's try block before animate(); failAt is the index of the
\* one that throws, Len(InitSteps) + 1 when none of them does.
InitSteps == << "scene", "camera", "renderer", "controls", "addLighting",
                "createBlocks", "createParticles", "addEventListeners" >>

StepIndex(name) == CHOOSE i \in 1 .. Len(InitSteps) : InitSteps[i] = name
Ran(name, failAt) == StepIndex(name) < failAt

WindowSizes == { <<2, 2>>, <<4, 2>> }

Init ==
    /\ scene = FALSE
    /\ camera = <<>>
    /\ renderer = <<>>
    /\ controls = FALSE
    /\ lights = FALSE
    /\ mouse = <<0, 0>>
    /\ lastIntersected = 0
    /\ blocks = <<>>
    /\ rotation = [x |-> 0, y |-> 0]
    /\ particles = <<>>
    /\ listeners = FALSE
    /\ pendingFrames = 0
    /\ errorLogged = FALSE
    /\ rendered = <<>>
    /\ window \in WindowSizes
    /\ trace = <<>>

init(failAt, bdraws, pdraws, throwAt) ==
    /\ trace = <<>>
    /\ scene' = Ran("scene", failAt)
    /\ camera' = IF Ran("camera", failAt) THEN window ELSE <<>>
    /\ renderer' = IF Ran("renderer", failAt) THEN window ELSE <<>>
    /\ controls' = Ran("controls", failAt)
    /\ lights' = Ran("addLighting", failAt)
    /\ blocks' = IF Ran("createBlocks", failAt) THEN createBlocks(bdraws) ELSE <<>>
    /\ listeners' = Ran("addEventListeners", failAt)
    /\ LET done == SubSeq(InitSteps, 1, failAt - 1)
           spawned == IF Ran("createParticles", failAt) THEN createParticles(pdraws) ELSE <<>>
       IN  IF failAt <= Len(InitSteps)
           THEN /\ particles' = spawned
                /\ trace' = <<"init">> \o done \o <<"throw", "console.error">>
                /\ errorLogged' = TRUE
                /\ UNCHANGED <<rotation, pendingFrames, rendered>>
           ELSE \E np \in animateParticles(spawned) :
                  LET s == animate([FrameState EXCEPT !.particles = spawned,
                                                      !.trace = <<"init">> \o done],
                                   np, throwAt)
                  IN  /\ particles' = s.particles
                      /\ rotation' = s.rotation
                      /\ pendingFrames' = s.pendingFrames
                      /\ rendered' = s.rendered
                      /\ errorLogged' = (throwAt # "none")
                      /\ trace' = IF throwAt # "none"
                                  THEN Append(s.trace, "console.error") ELSE s.trace
    /\ UNCHANGED <<mouse, lastIntersected, window>>

InitScene ==
    \E failAt \in 1 .. Len(InitSteps) + 1, bdraws \in BlockLayouts,
       pdraws \in [1 .. NumParticles -> ParticleDraws], throwAt \in ThrowPoints :
        init(failAt, bdraws, pdraws, throwAt)

\* ---- the handlers as actions ---------------------------------------------------------
onWindowResize(size) ==
    /\ listeners
    /\ size # window
    /\ window' = size
    /\ camera' = size
    /\ renderer' = size
    /\ trace' = <<"resize">>
    /\ UNCHANGED <<scene, controls, lights, mouse, lastIntersected, blocks, rotation,
                   particles, listeners, pendingFrames, errorLogged, rendered>>

onMouseMove(clientX, clientY) ==
    /\ listeners
    /\ LET m == <<NormalizeX(clientX, window[1]), NormalizeY(clientY, window[2])>>
           h == HoverUpdate(blocks, lastIntersected, Intersects(m, rotation, blocks))
       IN  /\ mouse' = m
           /\ blocks' = h.blocks
           /\ lastIntersected' = h.last
    /\ trace' = <<"mousemove">>
    /\ UNCHANGED <<scene, camera, renderer, controls, lights, rotation, particles,
                   listeners, pendingFrames, errorLogged, rendered, window>>

onMouseClick(colorDraw) ==
    /\ listeners
    /\ blocks' = ClickUpdate(blocks, Intersects(mouse, rotation, blocks), colorDraw)
    /\ trace' = <<"click">>
    /\ UNCHANGED <<scene, camera, renderer, controls, lights, mouse, lastIntersected,
                   rotation, particles, listeners, pendingFrames, errorLogged, rendered,
                   window>>

\* A queued requestAnimationFrame callback runs: () => this.animate().
FrameCallback(throwAt) ==
    /\ pendingFrames > 0
    /\ rotation.x < MaxFrames * RotStep
    /\ \E np \in animateParticles(particles) :
         LET s == animate([FrameState EXCEPT !.pendingFrames = pendingFrames - 1],
                          np, throwAt)
         IN  /\ particles' = s.particles
             /\ rotation' = s.rotation
             /\ pendingFrames' = s.pendingFrames
             /\ rendered' = s.rendered
             /\ trace' = s.trace
    /\ UNCHANGED <<scene, camera, renderer, controls, lights, mouse, lastIntersected,
                   blocks, listeners, errorLogged, window>>

\* The pointer positions of the events: the left edge, the middle and the right
\* edge of the window, on its top edge or its horizontal midline.
ClientXs(w) == { 0, w \div 2, w }
ClientYs(h) == { 0, h \div 2 }

Resize == \E size \in WindowSizes : onWindowResize(size)
MouseMove ==
    \E clientX \in ClientXs(window[1]), clientY \in ClientYs(window[2]) :
        onMouseMove(clientX, clientY)
MouseClick == \E colorDraw \in Rands : onMouseClick(colorDraw)
Frame == \E throwAt \in ThrowPoints : FrameCallback(throwAt)

Next == InitScene \/ Resize \/ MouseMove \/ MouseClick \/ Frame

Spec == Init /\ [][Next]_vars

\* The host runs a queued frame callback at the next display refresh.
LiveSpec == Init /\ [][Next]_vars /\ WF_vars(Frame)

\* ---- animateParticles alone ----------------------------------------------------------
\* The particle arrays the program can hold when animateParticles is called: as
\* createParticles leaves them, or after n further frames of drift.  A particle
\* that starts within the reset radius and is within it after n additions of its
\* velocity was within it after each of them (the ball is convex), so no reset
\* happened on the way.
DriftFrames == { 0, 250, 499, 500 }

HarnessDraws ==
    [pos : { <<0, 0, 0>>, <<0, Half, Half>>, <<Half, Half, Half>>, <<Top, Half, Half>> },
     vel : { <<Half, Half, Half>>, <<0, Half, Half>>, <<0, 0, 0>>, <<Top, 0, Half>> }]

Drifted(p, n) ==
    [position |-> <<p.position[1] + n * p.velocity[1], p.position[2] + n * p.velocity[2],
                    p.position[3] + n * p.velocity[3]>>,
     velocity |-> p.velocity]

CanDrift(p, n) == n = 0 \/ (~TooFar(p.position) /\ ~TooFar(Drifted(p, n).position))

ParticleInit ==
    /\ scene = FALSE
    /\ camera = <<>>
    /\ renderer = <<>>
    /\ controls = FALSE
    /\ lights = FALSE
    /\ mouse = <<0, 0>>
    /\ lastIntersected = 0
    /\ blocks = <<>>
    /\ rotation = [x |-> 0, y |-> 0]
    /\ \E draws \in [1 .. NumParticles -> HarnessDraws], n \in DriftFrames :
         /\ \A i \in 1 .. NumParticles : CanDrift(SpawnParticle(draws[i]), n)
         /\ particles = [i \in 1 .. NumParticles |-> Drifted(SpawnParticle(draws[i]), n)]
    /\ listeners = FALSE
    /\ pendingFrames = 0
    /\ errorLogged = FALSE
    /\ rendered = <<>>
    /\ window = <<2, 2>>
    /\ trace = <<>>

ParticleStep ==
    /\ Len(trace) <= MaxFrames
    /\ particles' \in animateParticles(particles)
    /\ trace' = Append(trace, "animateParticles")
    /\ UNCHANGED <<scene, camera, renderer, controls, lights, mouse, lastIntersected,
                   blocks, rotation, listeners, pendingFrames, errorLogged, rendered,
                   window>>

ParticleSpec == ParticleInit /\ [][ParticleStep]_vars

\* =========================================================================
\* Properties
\* =========================================================================
BlockIds == 1 .. Len(blocks)
ParticleIds == 1 .. Len(particles)
Hits == Intersects(mouse, rotation, blocks)
InitSucceeded == listeners /\ ~errorLogged

\* The steps of the most recent call of animate(): the trace after "animate".
RECURSIVE AnimateSteps(_)
AnimateSteps(tr) ==
    IF tr = <<>> THEN <<>>
    ELSE IF Head(tr) = "animate" THEN Tail(tr) ELSE AnimateSteps(Tail(tr))

IsPrefix(a, b) == Len(a) <= Len(b) /\ a = SubSeq(b, 1, Len(a))
Has(tr, name) == \E i \in 1 .. Len(tr) : tr[i] = name
FrameOrderSteps ==
    << "requestAnimationFrame", "rotate", "animateParticles", "controls.update", "render" >>

HalfReseed == ReseedWidth * 50 * RandDen
VelMax == (RandDen * VelWidth) \div 2
InReseedCube(pos) == \A c \in 1 .. 3 : -HalfReseed <= pos[c] /\ pos[c] < HalfReseed
VelocityInRange(v) == \A c \in 1 .. 3 : -VelMax <= v[c] /\ v[c] < VelMax
ZeroVec == <<0, 0, 0>>

\* C1 (hover law): in every state between handlers, for any interleaving of
\* pointer moves, clicks, resizes and frames, at most one block has a scale
\* other than 1.0.
HoverLaw == Cardinality({ i \in BlockIds : blocks[i].scale # ScaleNormal }) <= 1

\* C1 witness: a pointer move that followed a frame callback left a block hovered.
HoverLawWitness ==
    /\ trace = <<"mousemove">>
    /\ rotation.x > RotStep
    /\ \E i \in BlockIds : blocks[i].scale = ScaleHover

\* C2 (click law): a click whose ray, from the last known pointer position, hits
\* no block leaves every block (color, scale, position, size), the pointer and the
\* hover target unchanged.
ClickMissIsNoOp ==
    [][(trace' = <<"click">> /\ Len(Hits) = 0)
         => (blocks' = blocks /\ mouse' = mouse /\ lastIntersected' = lastIntersected)]_vars

\* C2 witness: a click has just run with no block under the pointer, while a
\* block elsewhere stays hovered from before the rotation moved it away.
ClickMissWitness == trace = <<"click">> /\ Len(Hits) = 0 /\ lastIntersected # 0

\* C3 as stated: a particle farther than 20 from the origin after
\* position += velocity leaves the update inside the cube of half-width 5, at a
\* distance strictly below 5 * sqrt(3), with every velocity component of
\* magnitude at most 0.01.
ReseedLawStrict ==
    [][\A i \in ParticleIds :
         TooFar(VecAdd(particles[i].position, particles[i].velocity))
           => /\ InReseedCube(particles'[i].position)
              /\ LengthSq(particles'[i].position) < 3 * HalfReseed * HalfReseed
              /\ \A c \in 1 .. 3 : /\ -VelMax <= particles'[i].velocity[c]
                                   /\ particles'[i].velocity[c] <= VelMax]_vars

\* C3 amended: a particle farther than 20 from the origin after
\* position += velocity leaves the same update inside the cube of half-width 5,
\* at a distance of at most 5 * sqrt(3) (the corner (-5,-5,-5) is drawn when
\* Math.random() returns 0 three times), with every velocity component of
\* magnitude at most 0.01.
ReseedLaw ==
    [][\A i \in ParticleIds :
         TooFar(VecAdd(particles[i].position, particles[i].velocity))
           => /\ InReseedCube(particles'[i].position)
              /\ LengthSq(particles'[i].position) <= 3 * HalfReseed * HalfReseed
              /\ \A c \in 1 .. 3 : /\ -VelMax <= particles'[i].velocity[c]
                                   /\ particles'[i].velocity[c] <= VelMax]_vars

\* C3 witness: an update has run and left a particle on the corner of the reseed
\* cube, at distance exactly 5 * sqrt(3).
ReseedLawWitness ==
    /\ Len(trace) > 0
    /\ \E i \in ParticleIds :
         particles[i].position = <<-HalfReseed, -HalfReseed, -HalfReseed>>

\* C4 as stated: the update leaves the position of every particle with zero
\* velocity unchanged, whatever position the particle holds.
ZeroVelocityFixedAnywhere ==
    [][\A i \in ParticleIds :
         particles[i].velocity = ZeroVec
           => particles'[i].position = particles[i].position]_vars

\* C4 amended: the update leaves the position (and the velocity) of every
\* particle with zero velocity unchanged, provided the particle is within
\* distance 20 of the origin.
ZeroVelocityFixed ==
    [][\A i \in ParticleIds :
         (particles[i].velocity = ZeroVec /\ ~TooFar(particles[i].position))
           => particles'[i] = particles[i]]_vars

\* C4 witness: updates have run on a particle at rest away from the origin.
ZeroVelocityWitness ==
    /\ Len(trace) > 1
    /\ \E i \in ParticleIds :
         /\ particles[i].velocity = ZeroVec
         /\ particles[i].position # ZeroVec
         /\ ~InReseedCube(particles[i].position)

\* C5 as stated: once init has caught and logged an error, no frame callback is
\* queued and no listener is registered.
InitFailureInert == errorLogged => (pendingFrames = 0 /\ ~listeners)

\* C6 (frame order): every call of animate() adds 0.002 to both rotation angles,
\* then runs the particle update, then the controls update, then the render, and
\* nothing else in between; a call that does not throw performs all four, and a
\* render draws the rotation and the particles as that call updated them.
FrameOrder ==
    [][rotation' # rotation
         => LET steps == AnimateSteps(trace')
                work == SelectSeq(steps, LAMBDA n : n \notin { "throw", "console.error" })
            IN  /\ rotation' = [x |-> rotation.x + RotStep, y |-> rotation.y + RotStep]
                /\ IsPrefix(work, FrameOrderSteps)
                /\ Has(steps, "animateParticles")
                /\ ~Has(steps, "throw") => work = FrameOrderSteps
                /\ IF Has(steps, "render")
                   THEN rendered' = << [rotation |-> rotation', particles |-> particles'] >>
                   ELSE rendered' = rendered]_vars

\* C6 witness: a frame callback ran all of its steps and drew a particle where
\* the update of that frame put it.
FrameOrderWitness ==
    /\ trace = <<"animate">> \o FrameOrderSteps
    /\ rendered = << [rotation |-> rotation, particles |-> particles] >>
    /\ \E i \in ParticleIds : particles[i].velocity # ZeroVec

\* C7 (frame driver liveness): after a successful init exactly one frame callback
\* is queued in every state between handlers, whatever handler ran and whether or
\* not a frame threw, and (up to the bound on frames) each frame is followed by a
\* next one.
FrameDriverLive ==
    /\ [](InitSucceeded => pendingFrames = 1)
    /\ \A n \in 1 .. MaxFrames - 1 :
         (InitSucceeded /\ rotation.x = n * RotStep) ~> (rotation.x = (n + 1) * RotStep)

\* C7 witness: a frame callback threw before rendering and its successor is queued.
FrameDriverWitness ==
    /\ InitSucceeded
    /\ Head(trace) = "animate"
    /\ Has(trace, "throw")
    /\ pendingFrames = 1

\* C8 (hover transition): between handlers the hover target is block b exactly
\* when b is the one block with scale 1.1, and is null exactly when every block
\* has scale 1.0; right after a pointer move the hover target is the nearest block
\* the ray hits, and null when it hits none.
HoverTransition ==
    /\ lastIntersected \in 0 .. Len(blocks)
    /\ \A i \in BlockIds :
         blocks[i].scale = IF i = lastIntersected THEN ScaleHover ELSE ScaleNormal
    /\ trace = <<"mousemove">> =>
         IF \E i \in BlockIds : BlockCell(blocks[i], rotation) = mouse
         THEN /\ lastIntersected # 0
              /\ BlockCell(blocks[lastIntersected], rotation) = mouse
              /\ \A j \in BlockIds :
                   BlockCell(blocks[j], rotation) = mouse => Nearer(blocks, lastIntersected, j)
         ELSE lastIntersected = 0

\* C8 witness: a pointer move whose ray hits two blocks hovered the nearer one,
\* which is not the first of the array.
HoverTransitionWitness ==
    /\ trace = <<"mousemove">>
    /\ Len(Hits) > 1
    /\ lastIntersected = Hits[1]
    /\ lastIntersected > 1

\* C9 (click effect): a click whose ray hits a block changes only the color of the
\* nearest hit block, to a color of the palette; the other blocks, every scale,
\* position and size, the pointer and the hover target stay as they were.
ClickEffect ==
    [][(trace' = <<"click">> /\ Len(Hits) > 0)
         => LET b == Hits[1]
            IN  /\ \A j \in BlockIds : Nearer(blocks, b, j) \/ BlockCell(blocks[j], rotation) # mouse
                /\ \A j \in BlockIds \ {b} : blocks'[j] = blocks[j]
                /\ blocks'[b].color \in { colors[c] : c \in 1 .. Len(colors) }
                /\ blocks' = [blocks EXCEPT ![b].color = blocks'[b].color]
                /\ mouse' = mouse
                /\ lastIntersected' = lastIntersected]_vars

\* C9 witness: a click recolored a block other than the hover target, which the
\* rotation of the group has moved from under the pointer since the last move.
ClickEffectWitness ==
    /\ trace = <<"click">>
    /\ Len(Hits) > 0
    /\ lastIntersected # 0
    /\ Hits[1] # lastIntersected
    /\ \E d \in 1 .. Len(BlockDraws) :
         /\ BlockOf(BlockDraws[d]).position = blocks[Hits[1]].position
         /\ BlockOf(BlockDraws[d]).color # blocks[Hits[1]].color

\* C10 (particle bound): once a call of animate() has run its particle update,
\* every particle is within distance 20 of the origin and every velocity
\* component lies in [-0.01, 0.01), and so is every particle of every rendered
\* frame; a particle farther away exists only before the first update.
ParticleBound ==
    /\ rotation.x > 0 =>
         \A i \in ParticleIds :
            ~TooFar(particles[i].position) /\ VelocityInRange(particles[i].velocity)
    /\ \A r \in 1 .. Len(rendered) : \A i \in 1 .. Len(rendered[r].particles) :
         /\ ~TooFar(rendered[r].particles[i].position)
         /\ VelocityInRange(rendered[r].particles[i].velocity)

\* C10 witness: a rendered frame shows a particle on the corner of the reseed
\* cube, where only a reset puts it.
ParticleBoundWitness ==
    /\ Len(rendered) = 1
    /\ \E i \in 1 .. Len(rendered[1].particles) :
         rendered[1].particles[i].position = <<-HalfReseed, -HalfReseed, -HalfReseed>>

====
